---- MODULE Spec2Model ----
(***************************************************************************)
(* Chef's Fridge Recipe Generator: the Streamlit wizard of app.py (Gemini  *)
(* backend) and the single-page variant of openai.py (OpenAI backend).     *)
(*                                                                         *)
(* One step of the model is one run of the script caused by one user      *)
(* event (a button press, a widget change), together with the rerun that  *)
(* st.rerun() causes.  Strings are sequences of one-character strings, so  *)
(* that split, strip and join are computed and not assumed.               *)
(***************************************************************************)
EXTENDS Integers, Sequences, FiniteSets, TLC

VARIABLES
    variant,         \* "app" (src/app.py) or "openai" (src/openai.py)
    keys,            \* the keys present in st.session_state
    page,            \* st.session_state.page
    images,          \* st.session_state.images, the Image Store
    ingredients,     \* st.session_state.ingredients
    recipes,         \* st.session_state.recipes
    image_option,    \* value of the "Choose an option:" radio
    uploaded_files,  \* files held by the st.file_uploader widget
    camera_image,    \* photo held by the st.camera_input widget, <<>> = None
    msgs,            \* st.error/warning/info/success shown by the last run
    event,           \* the user event (or function call) that caused the last step
    ret,             \* what identify_items / generate_recipe returned in the last run
    calls            \* the external calls (vision, text generation) the last run issued

vars == <<variant, keys, page, images, ingredients, recipes, image_option,
          uploaded_files, camera_image, msgs, event, ret, calls>>

-----------------------------------------------------------------------------
(* Bounds of the model *)

NumImages == 3      \* distinct image contents a user can submit
MaxBatch == 2       \* files held by the file uploader
MaxTextLen == 3     \* characters of a text typed in the ingredient text area
MaxRespLen == 2     \* characters of a vision response (function-level checks)
MaxCalls == 2       \* images passed to identify_items (function-level checks)
MaxRecipes == 1     \* cap on the "Number of recipes" slider
MaxRequests == 3    \* recipes asked of generate_multiple_recipes (function-level checks)
MaxItems == 2       \* ingredients passed to generate_recipe (function-level checks)
MaxExport == 2      \* recipes passed to get_pdf_download_link (function-level checks)
MaxRecipeLen == 2   \* characters of a recipe passed to get_pdf_download_link

-----------------------------------------------------------------------------
(* Strings *)

Whitespace == {" ", "\n"}
TextChars == {"a", " ", "\n"}
RespChars == {"a", ",", " "}

StringsUpTo(chars, n) == UNION {[1..k -> chars] : k \in 0..n}

Min(S) == CHOOSE x \in S : \A y \in S : x <= y
Max(S) == CHOOSE x \in S : \A y \in S : x >= y
Range(s) == {s[i] : i \in 1..Len(s)}

\* str.strip(): leading and trailing whitespace removed
strip(s) ==
    LET keep == {i \in 1..Len(s) : s[i] \notin Whitespace}
    IN  IF keep = {} THEN <<>> ELSE SubSeq(s, Min(keep), Max(keep))

\* str.split(sep) for a one-character separator: "".split(sep) = [""]
RECURSIVE split(_, _)
split(s, sep) ==
    LET at == {i \in 1..Len(s) : s[i] = sep}
    IN  IF at = {} THEN <<s>>
        ELSE <<SubSeq(s, 1, Min(at) - 1)>> \o split(SubSeq(s, Min(at) + 1, Len(s)), sep)

\* sep.join(list)
RECURSIVE join(_, _)
join(sep, list) ==
    IF list = <<>> THEN <<>>
    ELSE IF Len(list) = 1 THEN list[1]
    ELSE list[1] \o <<sep>> \o join(sep, Tail(list))

\* [item.strip() for item in items]
strip_each(items) == [i \in 1..Len(items) |-> strip(items[i])]

\* [item.strip() for item in text.split('\n') if item.strip()]
parse_ingredients(text) ==
    LET stripped == strip_each(split(text, "\n"))
    IN  SelectSeq(stripped, LAMBDA item : item # <<>>)

-----------------------------------------------------------------------------
(* Images and fingerprints.  An image is its decoded content, 0..NumImages-1 *)

Images == 0..(NumImages - 1)

\* image.save(buffered, format="JPEG"): lossy, distinct contents may encode alike
image_to_bytes(image) == image \div 2

\* hashlib.md5(...).hexdigest(): a fixed-width digest of the bytes
md5(bytes) == (bytes * 11 + 5) % 16

image_hash(image) == md5(image_to_bytes(image))

\* imagehash.average_hash: a coarse perceptual hash of the picture
average_hash(image) == image % 2

openai_image_hash(image) == average_hash(image)

\* the for loop of is_duplicate from index i on, with its early return
RECURSIVE is_duplicate_from(_, _, _)
is_duplicate_from(new_hash, existing_images, i) ==
    IF i > Len(existing_images) THEN FALSE
    ELSE IF image_hash(existing_images[i]) = new_hash THEN TRUE
    ELSE is_duplicate_from(new_hash, existing_images, i + 1)

\* mutant: images compared by content, not by fingerprint
is_duplicate_by_identity(new_image, existing_images) ==
    \E i \in 1..Len(existing_images) : existing_images[i] = new_image

\* mutant: the loop returns after looking at the first stored image
is_duplicate_first_only(new_image, existing_images) ==
    existing_images # <<>> /\ image_hash(existing_images[1]) = image_hash(new_image)

is_duplicate(new_image, existing_images) ==
    is_duplicate_from(image_hash(new_image), existing_images, 1)

RECURSIVE openai_is_duplicate_from(_, _, _)
openai_is_duplicate_from(new_hash, existing_images, i) ==
    IF i > Len(existing_images) THEN FALSE
    ELSE IF openai_image_hash(existing_images[i]) = new_hash THEN TRUE
    ELSE openai_is_duplicate_from(new_hash, existing_images, i + 1)

openai_is_duplicate(new_image, existing_images) ==
    openai_is_duplicate_from(openai_image_hash(new_image), existing_images, 1)

-----------------------------------------------------------------------------
(* identify_items.  responses[i] is the outcome of the i-th vision call:    *)
(* the text of the response, or APIError when the call (or reading its      *)
(* text) raises.                                                            *)

\* one request to the vision model: the instruction with the encoded image
vision_call(image) == [api |-> "vision", input |-> image_to_bytes(image)]

APIError == <<"Exception">>

\* mutant: return all_items as collected, duplicates kept
list_of_set_keep(xs) == {xs}

\* list(set(xs)): the distinct elements, in an order the program does not fix
list_of_set(xs) ==
    LET S == Range(xs)
    IN  {q \in [1..Cardinality(S) -> S] : \A i, j \in 1..Cardinality(S) : i # j => q[i] # q[j]}

\* mutant: the try block encloses the whole loop, the first failure ends it
RECURSIVE identify_loop_abort(_, _, _, _)
identify_loop_abort(imgs, responses, i, acc) ==
    IF i > Len(imgs) THEN acc
    ELSE IF responses[i] = APIError
    THEN [acc EXCEPT !.errors = Append(@, "An error occurred while identifying items"),
                        !.calls = Append(@, vision_call(imgs[i]))]
    ELSE identify_loop_abort(imgs, responses, i + 1,
            [acc EXCEPT !.all_items = @ \o strip_each(split(responses[i], ",")),
                        !.calls = Append(@, vision_call(imgs[i]))])

\* mutant: a vision call that fails is tried a second time
RECURSIVE identify_loop_retry(_, _, _, _)
identify_loop_retry(imgs, responses, i, acc) ==
    IF i > Len(imgs) THEN acc
    ELSE IF responses[i] = APIError
    THEN identify_loop_retry(imgs, responses, i + 1,
            [acc EXCEPT !.errors = Append(@, "An error occurred while identifying items"),
                        !.calls = @ \o <<vision_call(imgs[i]), vision_call(imgs[i])>>])
    ELSE identify_loop_retry(imgs, responses, i + 1,
            [acc EXCEPT !.all_items = @ \o strip_each(split(responses[i], ",")),
                        !.calls = Append(@, vision_call(imgs[i]))])

\* the for loop of identify_items from image i on; acc = all_items and the st.error calls
RECURSIVE identify_loop(_, _, _, _)
identify_loop(imgs, responses, i, acc) ==
    IF i > Len(imgs) THEN acc
    ELSE IF responses[i] = APIError
    THEN identify_loop(imgs, responses, i + 1,
            [acc EXCEPT !.errors = Append(@, "An error occurred while identifying items"),
                        !.calls = Append(@, vision_call(imgs[i]))])
    ELSE identify_loop(imgs, responses, i + 1,
            [acc EXCEPT !.all_items = @ \o strip_each(split(responses[i], ",")),
                        !.calls = Append(@, vision_call(imgs[i]))])

\* returns: the lists identify_items may return; errors: the diagnostics it shows
identify_items(imgs, responses) ==
    LET r == identify_loop(imgs, responses, 1,
                           [all_items |-> <<>>, errors |-> <<>>, calls |-> <<>>])
    IN  [returns |-> list_of_set(r.all_items), errors |-> r.errors, calls |-> r.calls]

RECURSIVE openai_identify_loop(_, _, _, _)
openai_identify_loop(imgs, responses, i, acc) ==
    IF i > Len(imgs) THEN acc
    ELSE IF responses[i] = APIError
    THEN openai_identify_loop(imgs, responses, i + 1,
            [acc EXCEPT !.errors = Append(@, "An error occurred while identifying items"),
                        !.calls = Append(@, vision_call(imgs[i]))])
    ELSE openai_identify_loop(imgs, responses, i + 1,
            [acc EXCEPT !.all_items = @ \o strip_each(split(responses[i], ",")),
                        !.calls = Append(@, vision_call(imgs[i]))])

openai_identify_items(imgs, responses) ==
    LET r == openai_identify_loop(imgs, responses, 1,
                                  [all_items |-> <<>>, errors |-> <<>>, calls |-> <<>>])
    IN  [returns |-> list_of_set(r.all_items), errors |-> r.errors, calls |-> r.calls]

-----------------------------------------------------------------------------
(* generate_recipe.  outcome is the text of the response, or "Exception"    *)
(* when the text-generation call raises.                                    *)

RecipeTexts == {"Pasta: boil, mix, serve."}
RecipeOutcomes == RecipeTexts \cup {"Exception"}

\* the choices of the two select boxes, spelled out character by character
diet_options ==
    << <<"N", "o", "n", "e">>,
       <<"V", "e", "g", "e", "t", "a", "r", "i", "a", "n">>,
       <<"V", "e", "g", "a", "n">>,
       <<"G", "l", "u", "t", "e", "n", "-", "F", "r", "e", "e">>,
       <<"K", "e", "t", "o">>,
       <<"L", "o", "w", "-", "C", "a", "r", "b">>,
       <<"P", "a", "l", "e", "o">> >>

cuisine_options ==
    << <<"A", "n", "y">>,
       <<"I", "t", "a", "l", "i", "a", "n">>,
       <<"M", "e", "x", "i", "c", "a", "n">>,
       <<"A", "s", "i", "a", "n">>,
       <<"M", "e", "d", "i", "t", "e", "r", "r", "a", "n", "e", "a", "n">>,
       <<"A", "m", "e", "r", "i", "c", "a", "n">>,
       <<"I", "n", "d", "i", "a", "n">>,
       <<"F", "r", "e", "n", "c", "h">> >>

UpperCase == <<"A", "B", "C", "D", "E", "F", "G", "H", "I", "J", "K", "L", "M",
               "N", "O", "P", "Q", "R", "S", "T", "U", "V", "W", "X", "Y", "Z">>
LowerCase == <<"a", "b", "c", "d", "e", "f", "g", "h", "i", "j", "k", "l", "m",
               "n", "o", "p", "q", "r", "s", "t", "u", "v", "w", "x", "y", "z">>

\* str.lower(): upper-case letters replaced, every other character kept
lower(w) ==
    [i \in 1..Len(w) |->
        IF \E k \in 1..Len(UpperCase) : UpperCase[k] = w[i]
        THEN LowerCase[CHOOSE k \in 1..Len(UpperCase) : UpperCase[k] = w[i]]
        ELSE w[i]]

\* the f-string of generate_recipe; its fixed phrases are single elements
build_prompt(items, diet_preference, cuisine_preference) ==
    LET diet_instruction ==
            IF diet_preference # diet_options[1]
            THEN <<"The recipe should be ">> \o lower(diet_preference) \o <<".">>
            ELSE <<>>
        cuisine_instruction ==
            IF cuisine_preference # cuisine_options[1]
            THEN <<"The recipe should be ">> \o cuisine_preference \o <<" cuisine.">>
            ELSE <<>>
    IN  <<"Create a recipe using these ingredients: ">> \o join(", ", items) \o <<". ">>
        \o diet_instruction \o <<" ">> \o cuisine_instruction
        \o <<" Provide the recipe name, ingredients with quantities, and step-by-step instructions.">>

\* one request to the text model
text_call(prompt) == [api |-> "text", input |-> prompt]

\* the try block of generate_recipe once the prompt is built: the call is
\* made, and its text or the except branch's marker comes back
request(prompt, outcome) ==
    IF outcome = "Exception"
    THEN [text |-> "Unable to generate recipe. Please try again.",
          errors |-> <<"An error occurred while generating the recipe">>,
          calls |-> <<text_call(prompt)>>]
    ELSE [text |-> outcome, errors |-> <<>>, calls |-> <<text_call(prompt)>>]

\* mutant: the diet name goes into the prompt as selected, not lower-cased
generate_recipe_diet_as_given(items, diet_preference, cuisine_preference, outcome) ==
    request(<<"Create a recipe using these ingredients: ">> \o join(", ", items) \o <<". ">>
            \o (IF diet_preference # diet_options[1]
                THEN <<"The recipe should be ">> \o diet_preference \o <<".">> ELSE <<>>)
            \o <<" ">>
            \o (IF cuisine_preference # cuisine_options[1]
                THEN <<"The recipe should be ">> \o cuisine_preference \o <<" cuisine.">>
                ELSE <<>>)
            \o <<" Provide the recipe name, ingredients with quantities, and step-by-step instructions.">>,
            outcome)

\* mutant: a failed request leaves an empty recipe
generate_recipe_empty_on_failure(items, diet_preference, cuisine_preference, outcome) ==
    IF outcome = "Exception"
    THEN [text |-> "",
          errors |-> <<"An error occurred while generating the recipe">>,
          calls |-> <<text_call(build_prompt(items, diet_preference, cuisine_preference))>>]
    ELSE request(build_prompt(items, diet_preference, cuisine_preference), outcome)

generate_recipe(items, diet_preference, cuisine_preference, outcome) ==
    request(build_prompt(items, diet_preference, cuisine_preference), outcome)

openai_generate_recipe(items, diet_preference, cuisine_preference, outcome) ==
    request(build_prompt(items, diet_preference, cuisine_preference), outcome)

\* mutant: the recipes are collected newest first
RECURSIVE generate_loop_prepend(_, _, _, _, _, _)
generate_loop_prepend(items, diet_preference, cuisine_preference, outcomes, i, acc) ==
    IF i > Len(outcomes) THEN acc
    ELSE LET r == generate_recipe(items, diet_preference, cuisine_preference, outcomes[i])
         IN  generate_loop_prepend(items, diet_preference, cuisine_preference, outcomes, i + 1,
                 [recipes |-> <<r.text>> \o acc.recipes, errors |-> acc.errors \o r.errors,
                  calls |-> acc.calls \o r.calls])

\* the for loop of generate_multiple_recipes from request i on
RECURSIVE generate_loop(_, _, _, _, _, _)
generate_loop(items, diet_preference, cuisine_preference, outcomes, i, acc) ==
    IF i > Len(outcomes) THEN acc
    ELSE LET r == generate_recipe(items, diet_preference, cuisine_preference, outcomes[i])
         IN  generate_loop(items, diet_preference, cuisine_preference, outcomes, i + 1,
                 [recipes |-> Append(acc.recipes, r.text), errors |-> acc.errors \o r.errors,
                  calls |-> acc.calls \o r.calls])

\* num_recipes = Len(outcomes): one outcome per request issued
generate_multiple_recipes(items, diet_preference, cuisine_preference, outcomes) ==
    generate_loop(items, diet_preference, cuisine_preference, outcomes, 1,
                  [recipes |-> <<>>, errors |-> <<>>, calls |-> <<>>])

-----------------------------------------------------------------------------
(* get_pdf_download_link.  A recipe is its characters; "U+2022" stands for  *)
(* one character outside Latin-1 (a bullet), "U+00E9" for one inside it.    *)

ExportChars == {"a", "\n", "U+00E9", "U+2022"}
NotLatin1 == {"U+2022"}

Digits == <<"0", "1", "2", "3", "4", "5", "6", "7", "8", "9">>

\* str(i) of the f-string, for i >= 0
RECURSIVE decimal(_)
decimal(i) ==
    IF i < 10 THEN <<Digits[i + 1]>>
    ELSE decimal(i \div 10) \o <<Digits[(i % 10) + 1]>>

\* str.encode("latin-1", errors="ignore"): what Latin-1 cannot encode is left out
encode_latin1_ignore(text) == SelectSeq(text, LAMBDA c : c \notin NotLatin1)

\* the calls on the FPDF object for recipe i and the following ones
RECURSIVE pdf_sections(_, _)
pdf_sections(recipes_, i) ==
    IF i > Len(recipes_) THEN <<>>
    ELSE << [op |-> "cell", txt |-> <<"Recipe ">> \o decimal(i)],
            [op |-> "multi_cell", txt |-> recipes_[i]],
            [op |-> "ln", txt |-> <<>>] >>
         \o pdf_sections(recipes_, i + 1)

\* what the link may hold: the document with its text encoded; where a recipe
\* has a character outside Latin-1, FPDF's own Latin-1 encoding of the page
\* may raise before the function's encode is reached
get_pdf_download_link(recipes_) ==
    LET cells == pdf_sections(recipes_, 1)
        pdf_output == [k \in 1..Len(cells) |->
                          [op |-> cells[k].op, txt |-> encode_latin1_ignore(cells[k].txt)]]
        raises == \E k \in 1..Len(cells) : Range(cells[k].txt) \cap NotLatin1 # {}
    IN  {[href |-> "data:application/pdf;base64", pdf |-> pdf_output]}
        \cup (IF raises THEN {[href |-> "UnicodeEncodeError", pdf |-> <<>>]} ELSE {})

-----------------------------------------------------------------------------
(* The script of app.py.  A run takes the session and widget state s (a     *)
(* record) and the event e that caused it, and gives the state it leaves.   *)
(* s.rerun is set where the script calls st.rerun().                        *)

Pages == <<"Home", "Upload Images", "Identify Ingredients", "Generate Recipe">>
PageSet == Range(Pages)

NoEdit == <<"(no edit)">>

show(s, m) == [s EXCEPT !.msgs = Append(@, m)]
goto(s, p) == [s EXCEPT !.page = p, !.rerun = TRUE]

\* the value a st.text_area returns: the text the user typed, else its value parameter
text_area(value, e) ==
    IF "text" \in DOMAIN e /\ e.text # NoEdit THEN e.text ELSE value

init_session_state(s) ==
    [s EXCEPT !.keys = @ \cup {"page", "images", "ingredients", "recipes"},
              !.page = IF "page" \in s.keys THEN @ ELSE "Home",
              !.images = IF "images" \in s.keys THEN @ ELSE <<>>,
              !.ingredients = IF "ingredients" \in s.keys THEN @ ELSE <<>>,
              !.recipes = IF "recipes" \in s.keys THEN @ ELSE <<>>]

home_page(s, e) ==
    IF e.kind = "start_button" THEN goto(s, "Upload Images") ELSE s

\* mutant: the photo is stored without looking for a duplicate
take_picture_always_add(s) ==
    IF s.camera_image = <<>> THEN s
    ELSE show([s EXCEPT !.images = Append(@, s.camera_image[1])], "Image added successfully!")

\* the camera branch of upload_images_page
take_picture(s) ==
    IF s.camera_image = <<>> THEN s
    ELSE IF ~is_duplicate(s.camera_image[1], s.images)
    THEN show([s EXCEPT !.images = Append(@, s.camera_image[1])], "Image added successfully!")
    ELSE show(s, "This image is a duplicate and was not added.")

\* the for loop over uploaded_files from file i on; acc = images, new_images, duplicates
RECURSIVE upload_loop(_, _, _)
upload_loop(files, i, acc) ==
    IF i > Len(files) THEN acc
    ELSE IF ~is_duplicate(files[i], acc.images)
    THEN upload_loop(files, i + 1,
            [acc EXCEPT !.images = Append(@, files[i]), !.new_images = @ + 1])
    ELSE upload_loop(files, i + 1, [acc EXCEPT !.duplicates = @ + 1])

\* the file-uploader branch of upload_images_page
upload_files(s) ==
    IF s.uploaded_files = <<>> THEN s
    ELSE LET r == upload_loop(s.uploaded_files, 1,
                      [images |-> s.images, new_images |-> 0, duplicates |-> 0])
             s1 == [s EXCEPT !.images = r.images]
             s2 == IF r.new_images > 0 THEN show(s1, "new image(s) added successfully!") ELSE s1
         IN  IF r.duplicates > 0 THEN show(s2, "duplicate image(s) were not added.") ELSE s2

\* mutant: Next does not check that an image was uploaded
upload_images_page_unguarded(s, e) ==
    LET s1 == IF s.image_option = "Take Pictures" THEN take_picture(s) ELSE upload_files(s)
    IN  IF s1.images # <<>> /\ e.kind = "clear_all"
        THEN [s1 EXCEPT !.images = <<>>, !.rerun = TRUE]
        ELSE IF e.kind = "back_to_home" THEN goto(s1, "Home")
        ELSE IF e.kind = "to_identify" THEN goto(s1, "Identify Ingredients")
        ELSE s1

upload_images_page(s, e) ==
    LET s1 == IF s.image_option = "Take Pictures" THEN take_picture(s) ELSE upload_files(s)
    IN  IF s1.images # <<>> /\ e.kind = "clear_all"
        THEN [s1 EXCEPT !.images = <<>>, !.rerun = TRUE]
        ELSE IF e.kind = "back_to_home" THEN goto(s1, "Home")
        ELSE IF e.kind = "to_identify"
        THEN IF s1.images = <<>>
             THEN show(s1, "Please upload at least one image before proceeding.")
             ELSE goto(s1, "Identify Ingredients")
        ELSE s1

\* the Identify button: r is what identify_items did, list the list it returned
identify_clicked(s, list, r) ==
    [s EXCEPT !.ingredients = list, !.ret = list,
              !.msgs = @ \o r.errors, !.calls = @ \o r.calls]

\* mutant: Next tests the list as it was before the text area was read
identify_ingredients_page_early_check(s, e) ==
    IF s.images = <<>>
    THEN show(s, "Please upload images of your fridge contents first.")
    ELSE
    LET s1 == IF e.kind = "identify"
              THEN identify_clicked(s, e.identified, identify_items(s.images, e.responses))
              ELSE s
        s2 == IF s1.ingredients # <<>>
              THEN [s1 EXCEPT !.ingredients =
                        parse_ingredients(text_area(join("\n", s1.ingredients), e))]
              ELSE s1
    IN  IF e.kind = "back_to_upload" THEN goto(s2, "Upload Images")
        ELSE IF e.kind = "to_generate"
        THEN IF s1.ingredients = <<>>
             THEN show(s2, "Please identify ingredients before proceeding.")
             ELSE goto(s2, "Generate Recipe")
        ELSE s2

identify_ingredients_page(s, e) ==
    IF s.images = <<>>
    THEN show(s, "Please upload images of your fridge contents first.")
    ELSE
    LET s1 == IF e.kind = "identify"
              THEN identify_clicked(s, e.identified, identify_items(s.images, e.responses))
              ELSE s
        s2 == IF s1.ingredients # <<>>
              THEN [s1 EXCEPT !.ingredients =
                        parse_ingredients(text_area(join("\n", s1.ingredients), e))]
              ELSE s1
    IN  IF e.kind = "back_to_upload" THEN goto(s2, "Upload Images")
        ELSE IF e.kind = "to_generate"
        THEN IF s2.ingredients = <<>>
             THEN show(s2, "Please identify ingredients before proceeding.")
             ELSE goto(s2, "Generate Recipe")
        ELSE s2

\* mutant: going back discards the recipes
generate_recipe_page_clearing(s, e) ==
    IF s.ingredients = <<>>
    THEN show(s, "Please identify ingredients first.")
    ELSE
    LET s1 == IF e.kind = "generate"
              THEN LET r == generate_multiple_recipes(s.ingredients, e.diet_preference,
                                e.cuisine_preference, e.outcomes)
                   IN  [s EXCEPT !.recipes = r.recipes, !.msgs = @ \o r.errors,
                                 !.calls = @ \o r.calls]
              ELSE s
    IN  IF e.kind = "back_to_ingredients"
        THEN goto([s1 EXCEPT !.recipes = <<>>], "Identify Ingredients")
        ELSE s1

\* mutant: the new recipes are added to the ones of the session
generate_recipe_page_appending(s, e) ==
    IF s.ingredients = <<>>
    THEN show(s, "Please identify ingredients first.")
    ELSE
    LET s1 == IF e.kind = "generate"
              THEN LET r == generate_multiple_recipes(s.ingredients, e.diet_preference,
                                e.cuisine_preference, e.outcomes)
                   IN  [s EXCEPT !.recipes = @ \o r.recipes, !.msgs = @ \o r.errors,
                                 !.calls = @ \o r.calls]
              ELSE s
    IN  IF e.kind = "back_to_ingredients" THEN goto(s1, "Identify Ingredients") ELSE s1

generate_recipe_page(s, e) ==
    IF s.ingredients = <<>>
    THEN show(s, "Please identify ingredients first.")
    ELSE
    LET s1 == IF e.kind = "generate"
              THEN LET r == generate_multiple_recipes(s.ingredients, e.diet_preference,
                                e.cuisine_preference, e.outcomes)
                   IN  [s EXCEPT !.recipes = r.recipes, !.msgs = @ \o r.errors,
                                 !.calls = @ \o r.calls]
              ELSE s
    IN  IF e.kind = "back_to_ingredients" THEN goto(s1, "Identify Ingredients") ELSE s1

\* mutant: the sidebar applies the checks of the Next buttons
main_checked_jump(s, e) ==
    LET s0 == init_session_state([s EXCEPT !.msgs = <<>>, !.ret = <<>>, !.calls = <<>>,
                                               !.rerun = FALSE])
        selected == IF e.kind = "sidebar" THEN e.page ELSE s0.page
        allowed == /\ (selected = "Identify Ingredients" => s0.images # <<>>)
                   /\ (selected = "Generate Recipe" => s0.ingredients # <<>>)
    IN  IF selected # s0.page /\ allowed THEN goto(s0, selected)
        ELSE IF s0.page = "Home" THEN home_page(s0, e)
        ELSE IF s0.page = "Upload Images" THEN upload_images_page(s0, e)
        ELSE IF s0.page = "Identify Ingredients" THEN identify_ingredients_page(s0, e)
        ELSE generate_recipe_page(s0, e)

\* one run of the script
main(s, e) ==
    LET s0 == init_session_state([s EXCEPT !.msgs = <<>>, !.ret = <<>>, !.calls = <<>>,
                                               !.rerun = FALSE])
        selected == IF e.kind = "sidebar" THEN e.page ELSE s0.page
    IN  IF selected # s0.page THEN goto(s0, selected)
        ELSE IF s0.page = "Home" THEN home_page(s0, e)
        ELSE IF s0.page = "Upload Images" THEN upload_images_page(s0, e)
        ELSE IF s0.page = "Identify Ingredients" THEN identify_ingredients_page(s0, e)
        ELSE generate_recipe_page(s0, e)

-----------------------------------------------------------------------------
(* The script of openai.py: one page, no wizard.                            *)

openai_take_picture(s) ==
    IF s.camera_image = <<>> THEN s
    ELSE IF ~openai_is_duplicate(s.camera_image[1], s.images)
    THEN show([s EXCEPT !.images = Append(@, s.camera_image[1])], "Image added successfully!")
    ELSE s

RECURSIVE openai_upload_loop(_, _, _)
openai_upload_loop(files, i, acc) ==
    IF i > Len(files) THEN acc
    ELSE IF ~openai_is_duplicate(files[i], acc.images)
    THEN openai_upload_loop(files, i + 1,
            [acc EXCEPT !.images = Append(@, files[i]), !.new_images = @ + 1])
    ELSE openai_upload_loop(files, i + 1, [acc EXCEPT !.duplicates = @ + 1])

openai_upload_files(s) ==
    IF s.uploaded_files = <<>> THEN s
    ELSE LET r == openai_upload_loop(s.uploaded_files, 1,
                      [images |-> s.images, new_images |-> 0, duplicates |-> 0])
             s1 == [s EXCEPT !.images = r.images]
             s2 == IF r.new_images > 0 THEN show(s1, "new image(s) added successfully!") ELSE s1
         IN  IF r.duplicates > 0 THEN show(s2, "duplicate image(s) were not added.") ELSE s2

\* the right-hand column of openai.py's main
openai_col2(s, e) ==
    IF "ingredients" \in s.keys
    THEN LET s1 == [s EXCEPT !.ingredients =
                        parse_ingredients(text_area(join("\n", s.ingredients), e))]
         IN  IF e.kind = "generate"
             THEN LET r == openai_generate_recipe(s1.ingredients, e.diet_preference,
                               e.cuisine_preference, e.outcomes[1])
                  IN  [s1 EXCEPT !.ret = r.text, !.msgs = @ \o r.errors,
                                  !.calls = @ \o r.calls]
             ELSE s1
    ELSE show(s, "Take or upload pictures of your fridge contents, then click 'Identify Ingredients' to start.")

openai_main(s, e) ==
    LET s0 == [s EXCEPT !.msgs = <<>>, !.ret = <<>>, !.calls = <<>>, !.rerun = FALSE,
                        !.keys = @ \cup {"images"},
                        !.images = IF "images" \in s.keys THEN @ ELSE <<>>]
        s1 == IF s0.image_option = "Take Pictures"
              THEN openai_take_picture(s0) ELSE openai_upload_files(s0)
    IN  IF s1.images # <<>> /\ e.kind = "clear_all"
        THEN [s1 EXCEPT !.images = <<>>, !.rerun = TRUE]
        ELSE IF s1.images # <<>> /\ e.kind = "identify"
        THEN openai_col2(identify_clicked([s1 EXCEPT !.keys = @ \cup {"ingredients"}], e.identified,
                                    openai_identify_items(s1.images, e.responses)),
                         e)
        ELSE openai_col2(s1, e)

-----------------------------------------------------------------------------
(* Streamlit: widget values reach the script with the event; a widget that  *)
(* the final run did not render loses its value.                            *)

default_option(v) == IF v = "app" THEN "Upload Images" ELSE "Take Pictures"

\* the widget change of event e, applied before the script runs
set_widget(s, e) ==
    IF e.kind = "image_option" THEN [s EXCEPT !.image_option = e.option]
    ELSE IF e.kind = "file_uploader" THEN [s EXCEPT !.uploaded_files = e.files]
    ELSE IF e.kind = "camera_input" THEN [s EXCEPT !.camera_image = e.photo]
    ELSE s

forget_unrendered(s) ==
    IF s.variant = "app" /\ s.page # "Upload Images"
    THEN [s EXCEPT !.image_option = default_option(s.variant),
                   !.uploaded_files = <<>>, !.camera_image = <<>>]
    ELSE IF s.image_option = "Take Pictures"
    THEN [s EXCEPT !.uploaded_files = <<>>]
    ELSE [s EXCEPT !.camera_image = <<>>]

run(s, e) == IF s.variant = "app" THEN main(s, e) ELSE openai_main(s, e)

\* st.rerun(): r is the session as the run that asked for it leaves it
rerun_if_asked(r) == IF r.rerun THEN run(r, [kind |-> "rerun"]) ELSE r

\* the run caused by event e and, if it called st.rerun(), the run that follows
script(s, e) == forget_unrendered(rerun_if_asked(run(set_widget(s, e), e)))

\* the buttons and inputs the last run rendered
rendered(s) ==
    IF s.variant = "app"
    THEN {"sidebar"} \cup
         (IF s.page = "Home" THEN {"start_button"}
          ELSE IF s.page = "Upload Images"
          THEN {"image_option", "back_to_home", "to_identify"}
               \cup (IF s.image_option = "Take Pictures" THEN {"camera_input"} ELSE {"file_uploader"})
               \cup (IF s.images # <<>> THEN {"clear_all"} ELSE {})
          ELSE IF s.page = "Identify Ingredients"
          THEN IF s.images = <<>> THEN {}
               ELSE {"identify", "back_to_upload", "to_generate"}
                    \cup (IF s.ingredients # <<>> THEN {"text_area"} ELSE {})
          ELSE IF s.ingredients = <<>> THEN {}
               ELSE {"generate", "back_to_ingredients"})
    ELSE {"image_option"}
         \cup (IF s.image_option = "Take Pictures" THEN {"camera_input"} ELSE {"file_uploader"})
         \cup (IF s.images # <<>> THEN {"clear_all", "identify"} ELSE {})
         \cup (IF "ingredients" \in s.keys THEN {"text_area", "generate"} ELSE {})

-----------------------------------------------------------------------------
(* State machine of a session *)

Variants == {"app", "openai"}

\* a session before the first run of the script
fresh(v) ==
    [variant |-> v, keys |-> {}, page |-> "", images |-> <<>>, ingredients |-> <<>>,
     recipes |-> <<>>, image_option |-> default_option(v), uploaded_files |-> <<>>,
     camera_image |-> <<>>, msgs |-> <<>>, ret |-> <<>>, calls |-> <<>>, rerun |-> FALSE]

state ==
    [variant |-> variant, keys |-> keys, page |-> page, images |-> images,
     ingredients |-> ingredients, recipes |-> recipes, image_option |-> image_option,
     uploaded_files |-> uploaded_files, camera_image |-> camera_image,
     msgs |-> msgs, ret |-> ret, calls |-> calls, rerun |-> FALSE]

becomes(r) ==
    /\ variant' = r.variant
    /\ keys' = r.keys
    /\ page' = r.page
    /\ images' = r.images
    /\ ingredients' = r.ingredients
    /\ recipes' = r.recipes
    /\ image_option' = r.image_option
    /\ uploaded_files' = r.uploaded_files
    /\ camera_image' = r.camera_image
    /\ msgs' = r.msgs
    /\ ret' = r.ret
    /\ calls' = r.calls

\* the user event e happens: the script runs on it
user(e) ==
    /\ \E r \in {script(state, e)} : becomes(r)
    /\ event' = [kind |-> e.kind, edited |-> "text" \in DOMAIN e /\ e.text # NoEdit,
                 num_recipes |-> IF "outcomes" \in DOMAIN e THEN Len(e.outcomes) ELSE 0]

\* inputs
Batches == UNION {[1..k -> Images] : k \in 0..MaxBatch}
Photos == {<<>>} \cup {<<i>> : i \in Images}
UserTexts == StringsUpTo(TextChars, MaxTextLen)
VisionResponses ==
    {APIError, <<>>, <<"a">>, <<"a", ",">>, <<"a", "\n", "a">>, <<"a", ",", " ", "a", "a">>}
DietOptions == {diet_options[1], diet_options[3]}           \* "None", "Vegan"
CuisineOptions == {cuisine_options[1], cuisine_options[2]}   \* "Any", "Italian"
SliderMax == 5
NumRecipes == 1..(IF MaxRecipes < SliderMax THEN MaxRecipes ELSE SliderMax)

\* the text the user may have typed into the text area before pressing a button
Edits == {NoEdit} \cup (IF "text_area" \in rendered(state) THEN UserTexts ELSE {})

\* the session after the first run of the script, for a variant in V
InitFor(V) ==
    /\ variant \in V
    /\ \E r \in {script(fresh(variant), [kind |-> "first run"])} :
           /\ keys = r.keys
           /\ page = r.page
           /\ images = r.images
           /\ ingredients = r.ingredients
           /\ recipes = r.recipes
           /\ image_option = r.image_option
           /\ uploaded_files = r.uploaded_files
           /\ camera_image = r.camera_image
           /\ msgs = r.msgs
           /\ ret = r.ret
           /\ calls = r.calls
    /\ event = [kind |-> "first run", edited |-> FALSE, num_recipes |-> 0]

Init == InitFor({"app"})

Start ==
    /\ "start_button" \in rendered(state)
    /\ user([kind |-> "start_button"])

SidebarJump ==
    /\ "sidebar" \in rendered(state)
    /\ \E p \in PageSet \ {page} : user([kind |-> "sidebar", page |-> p])

SelectImageOption ==
    /\ "image_option" \in rendered(state)
    /\ \E o \in {"Upload Images", "Take Pictures"} \ {image_option} :
          user([kind |-> "image_option", option |-> o])

\* the user adds files to the uploader, or removes one of those it holds
UploadFiles ==
    /\ "file_uploader" \in rendered(state)
    /\ \/ \E added \in Batches \ {<<>>} :
             /\ Len(uploaded_files) + Len(added) <= MaxBatch
             /\ user([kind |-> "file_uploader", files |-> uploaded_files \o added])
       \/ \E k \in 1..Len(uploaded_files) :
             user([kind |-> "file_uploader",
                   files |-> SubSeq(uploaded_files, 1, k - 1)
                             \o SubSeq(uploaded_files, k + 1, Len(uploaded_files))])

TakePicture ==
    /\ "camera_input" \in rendered(state)
    /\ \E photo \in Photos \ {camera_image} :
          user([kind |-> "camera_input", photo |-> photo])

ClearAllImages ==
    /\ "clear_all" \in rendered(state)
    /\ user([kind |-> "clear_all"])

BackToHome ==
    /\ "back_to_home" \in rendered(state)
    /\ user([kind |-> "back_to_home"])

NextToIdentify ==
    /\ "to_identify" \in rendered(state)
    /\ user([kind |-> "to_identify"])

IdentifyIngredients ==
    /\ "identify" \in rendered(state)
    /\ \E responses \in [1..Len(images) -> VisionResponses] :
          \E identified \in (IF variant = "app" THEN identify_items(images, responses).returns
                             ELSE openai_identify_items(images, responses).returns) :
             user([kind |-> "identify", responses |-> responses, identified |-> identified])

EditIngredients ==
    /\ "text_area" \in rendered(state)
    /\ \E text \in UserTexts : user([kind |-> "text_area", text |-> text])

BackToUpload ==
    /\ "back_to_upload" \in rendered(state)
    /\ user([kind |-> "back_to_upload"])

NextToGenerate ==
    /\ "to_generate" \in rendered(state)
    /\ \E text \in Edits : user([kind |-> "to_generate", text |-> text])

GenerateRecipes ==
    /\ "generate" \in rendered(state)
    /\ \E n \in (IF variant = "app" THEN NumRecipes ELSE {1}) :
       \E outcomes \in [1..n -> RecipeOutcomes] :
       \E diet \in DietOptions, cuisine \in CuisineOptions :
          user([kind |-> "generate", outcomes |-> outcomes, diet_preference |-> diet,
                cuisine_preference |-> cuisine])

BackToIngredients ==
    /\ "back_to_ingredients" \in rendered(state)
    /\ user([kind |-> "back_to_ingredients"])

Next ==
    \/ Start
    \/ SidebarJump
    \/ SelectImageOption
    \/ UploadFiles
    \/ TakePicture
    \/ ClearAllImages
    \/ BackToHome
    \/ NextToIdentify
    \/ IdentifyIngredients
    \/ EditIngredients
    \/ BackToUpload
    \/ NextToGenerate
    \/ GenerateRecipes
    \/ BackToIngredients

\* the wizard of app.py
Spec == Init /\ [][Next]_vars

\* the wizard driven without the sidebar menu
NextButtons ==
    \/ Start
    \/ SelectImageOption
    \/ UploadFiles
    \/ TakePicture
    \/ ClearAllImages
    \/ BackToHome
    \/ NextToIdentify
    \/ IdentifyIngredients
    \/ EditIngredients
    \/ BackToUpload
    \/ NextToGenerate
    \/ GenerateRecipes
    \/ BackToIngredients

SpecButtons == Init /\ [][NextButtons]_vars

\* the single page of openai.py
InitOpenAI == InitFor({"openai"})

NextOpenAI ==
    \/ SelectImageOption
    \/ UploadFiles
    \/ TakePicture
    \/ ClearAllImages
    \/ IdentifyIngredients
    \/ EditIngredients
    \/ GenerateRecipes

SpecOpenAI == InitOpenAI /\ [][NextOpenAI]_vars

\* both variants, restricted to capture, upload, clear and navigation
InitStore == InitFor(Variants)

NextStore ==
    \/ Start
    \/ SidebarJump
    \/ SelectImageOption
    \/ UploadFiles
    \/ TakePicture
    \/ ClearAllImages
    \/ BackToHome
    \/ NextToIdentify
    \/ BackToUpload

SpecStore == InitStore /\ [][NextStore]_vars

-----------------------------------------------------------------------------
(* Function-level specifications: the inputs are drawn by Init, the action  *)
(* applies the function and records what it returns.                        *)

Stores == UNION {[1..k -> Images] : k \in 0..(MaxBatch + 1)}

InitDedup ==
    /\ variant \in Variants
    /\ images \in Stores
    /\ camera_image \in {<<i>> : i \in Images}
    /\ event = [kind |-> "call is_duplicate", edited |-> FALSE]
    /\ keys = {"images"} /\ page = "" /\ ingredients = <<>> /\ recipes = <<>>
    /\ image_option = "Take Pictures" /\ uploaded_files = <<>> /\ msgs = <<>> /\ ret = <<>>
    /\ calls = <<>>

\* is_duplicate(new_image, st.session_state.images) is evaluated
IsDuplicateCall ==
    /\ event.kind = "call is_duplicate"
    /\ ret' = IF variant = "app" THEN is_duplicate(camera_image[1], images)
              ELSE openai_is_duplicate(camera_image[1], images)
    /\ event' = [event EXCEPT !.kind = "return is_duplicate"]
    /\ UNCHANGED <<variant, keys, page, images, ingredients, recipes, image_option,
                   uploaded_files, camera_image, msgs, calls>>

SpecDedup == InitDedup /\ [][IsDuplicateCall]_vars

Responses == StringsUpTo(RespChars, MaxRespLen) \cup {APIError}

InitIdentify ==
    /\ variant \in Variants
    /\ \E k \in 0..MaxCalls :
          /\ images = [i \in 1..k |-> (i - 1) % NumImages]
          /\ \E responses \in [1..k -> Responses] :
                event = [kind |-> "call identify_items", edited |-> FALSE,
                         responses |-> responses]
    /\ keys = {"images"} /\ page = "" /\ ingredients = <<>> /\ recipes = <<>>
    /\ image_option = "Take Pictures" /\ uploaded_files = <<>> /\ camera_image = <<>>
    /\ msgs = <<>> /\ ret = <<>> /\ calls = <<>>

\* identify_items(images) is evaluated, the vision calls answering event.responses
IdentifyItemsCall ==
    /\ event.kind = "call identify_items"
    /\ \E r \in {IF variant = "app" THEN identify_items(images, event.responses)
                 ELSE openai_identify_items(images, event.responses)} :
          /\ \E list \in r.returns : ret' = list
          /\ msgs' = r.errors
          /\ calls' = r.calls
    /\ event' = [event EXCEPT !.kind = "return identify_items"]
    /\ UNCHANGED <<variant, keys, page, images, ingredients, recipes, image_option,
                   uploaded_files, camera_image>>

SpecIdentify == InitIdentify /\ [][IdentifyItemsCall]_vars

\* ingredient names as the text area leaves them: trimmed, non-empty, one line
ItemNames == {<<"a">>, <<"b", " ", "c">>}
ItemLists == UNION {[1..k -> ItemNames] : k \in 0..MaxItems}

\* what a text-generation call may answer: a text (possibly empty) or an exception
GenerationOutcomes == RecipeOutcomes \cup {"Salad: chop, toss.", ""}

InitGenerate ==
    /\ variant \in Variants
    /\ ingredients \in ItemLists
    /\ (variant = "app" => ingredients # <<>>)
    /\ \/ \E diet \in Range(diet_options), cuisine \in Range(cuisine_options) :
          \E outcome \in RecipeOutcomes :
             event = [kind |-> "call generate_recipe", edited |-> FALSE,
                      diet_preference |-> diet, cuisine_preference |-> cuisine,
                      outcomes |-> <<outcome>>]
       \/ /\ variant = "app"
          /\ \E diet \in DietOptions, cuisine \in CuisineOptions :
             \E n \in 1..(IF MaxRequests < SliderMax THEN MaxRequests ELSE SliderMax) :
             \E outcomes \in [1..n -> GenerationOutcomes] :
                event = [kind |-> "call generate_multiple_recipes", edited |-> FALSE,
                         diet_preference |-> diet, cuisine_preference |-> cuisine,
                         outcomes |-> outcomes]
    /\ keys = {"images", "ingredients"} /\ page = "" /\ images = <<>> /\ recipes = <<>>
    /\ image_option = "Take Pictures" /\ uploaded_files = <<>> /\ camera_image = <<>>
    /\ msgs = <<>> /\ ret = <<>> /\ calls = <<>>

\* generate_recipe(ingredients, diet, cuisine) is evaluated, the text call
\* answering event.outcomes[1]
GenerateRecipeCall ==
    /\ event.kind = "call generate_recipe"
    /\ \E r \in {IF variant = "app"
                 THEN generate_recipe(ingredients, event.diet_preference,
                                      event.cuisine_preference, event.outcomes[1])
                 ELSE openai_generate_recipe(ingredients, event.diet_preference,
                                             event.cuisine_preference, event.outcomes[1])} :
          /\ ret' = r.text
          /\ msgs' = r.errors
          /\ calls' = r.calls
    /\ event' = [event EXCEPT !.kind = "return generate_recipe"]
    /\ UNCHANGED <<variant, keys, page, images, ingredients, recipes, image_option,
                   uploaded_files, camera_image>>

\* generate_multiple_recipes(ingredients, diet, cuisine, num_recipes) is
\* evaluated, the i-th text call answering event.outcomes[i]
GenerateMultipleRecipesCall ==
    /\ event.kind = "call generate_multiple_recipes"
    /\ \E r \in {generate_multiple_recipes(ingredients, event.diet_preference,
                                           event.cuisine_preference, event.outcomes)} :
          /\ ret' = r.recipes
          /\ msgs' = r.errors
          /\ calls' = r.calls
    /\ event' = [event EXCEPT !.kind = "return generate_multiple_recipes"]
    /\ UNCHANGED <<variant, keys, page, images, ingredients, recipes, image_option,
                   uploaded_files, camera_image>>

NextGenerate ==
    \/ GenerateRecipeCall
    \/ GenerateMultipleRecipesCall

SpecGenerate == InitGenerate /\ [][NextGenerate]_vars

\* the recipe lists the Generate page may hand to the exporter
RecipeBodies == StringsUpTo(ExportChars, MaxRecipeLen)
RecipeLists == UNION {[1..k -> RecipeBodies] : k \in 1..MaxExport}

InitExport ==
    /\ variant = "app"
    /\ recipes \in RecipeLists
    /\ event = [kind |-> "call get_pdf_download_link", edited |-> FALSE]
    /\ keys = {"page", "images", "ingredients", "recipes"} /\ page = "Generate Recipe"
    /\ images = <<>> /\ ingredients = <<>>
    /\ image_option = "Upload Images" /\ uploaded_files = <<>> /\ camera_image = <<>>
    /\ msgs = <<>> /\ ret = <<>> /\ calls = <<>>

\* get_pdf_download_link(st.session_state.recipes) is evaluated
GetPdfDownloadLinkCall ==
    /\ event.kind = "call get_pdf_download_link"
    /\ \E link \in get_pdf_download_link(recipes) : ret' = link
    /\ event' = [event EXCEPT !.kind = "return get_pdf_download_link"]
    /\ UNCHANGED <<variant, keys, page, images, ingredients, recipes, image_option,
                   uploaded_files, camera_image, msgs, calls>>

SpecExport == InitExport /\ [][GetPdfDownloadLinkCall]_vars

-----------------------------------------------------------------------------
(* Properties *)

shown(m) == \E i \in 1..Len(msgs) : msgs[i] = m
shown_next(m) == \E i \in 1..Len(msgs') : msgs'[i] = m

\* C1: Next on Upload Images with an empty Image Store is rejected: the stage
\* stays Upload Images, the validation message is shown, and images,
\* ingredients and recipes are unchanged; with a non-empty store the stage
\* becomes Identify Ingredients.
C1_NextFromUpload ==
    [][ (event'.kind = "to_identify" /\ page = "Upload Images") =>
            IF images = <<>>
            THEN /\ page' = "Upload Images"
                 /\ shown_next("Please upload at least one image before proceeding.")
                 /\ images' = images /\ ingredients' = ingredients /\ recipes' = recipes
            ELSE page' = "Identify Ingredients" ]_vars

C1_Witness ==
    /\ event.kind = "to_identify"
    /\ page = "Upload Images"
    /\ images = <<>>
    /\ shown("Please upload at least one image before proceeding.")

\* C2: Next on Identify Ingredients moves to Generate Recipe only if the
\* ingredient list, after the text-area edit of the same run, is non-empty;
\* otherwise the validation message is shown and the stage stays.
C2_NextFromIdentify ==
    [][ (event'.kind = "to_generate" /\ page = "Identify Ingredients") =>
            IF ingredients' # <<>>
            THEN page' = "Generate Recipe"
            ELSE /\ page' = "Identify Ingredients"
                 /\ shown_next("Please identify ingredients before proceeding.") ]_vars

C2_Witness ==
    /\ event.kind = "to_generate"
    /\ event.edited
    /\ page = "Identify Ingredients"
    /\ ingredients = <<>>
    /\ shown("Please identify ingredients before proceeding.")

BackButton(p) ==
    IF p = "Upload Images" THEN "back_to_home"
    ELSE IF p = "Identify Ingredients" THEN "back_to_upload"
    ELSE "back_to_ingredients"

PreviousPage(p) ==
    IF p = "Upload Images" THEN "Home"
    ELSE IF p = "Identify Ingredients" THEN "Upload Images"
    ELSE "Identify Ingredients"

\* C3: in every reachable state whose stage is not Home, the page's Back
\* button is rendered and pressing it makes the previous stage current,
\* whatever the Image Store and the ingredient list hold.
C3_BackAlwaysAvailable ==
    page # "Home" =>
        /\ BackButton(page) \in rendered(state)
        /\ script(state, [kind |-> BackButton(page)]).page = PreviousPage(page)

NavigationKinds ==
    {"start_button", "sidebar", "back_to_home", "to_identify", "back_to_upload",
     "to_generate", "back_to_ingredients"}

\* C4: a navigation event (Start, Next, Back, sidebar jump) without a user
\* edit, with the re-render of the destination page, leaves the Image Store,
\* the ingredient list and the recipe list unchanged.
C4_NavigationKeepsData ==
    [][ (event'.kind \in NavigationKinds /\ ~event'.edited) =>
            /\ images' = images
            /\ ingredients' = ingredients
            /\ recipes' = recipes ]_vars

C4_Witness ==
    /\ event.kind = "back_to_ingredients"
    /\ page = "Identify Ingredients"
    /\ ingredients # <<>>
    /\ recipes # <<>>

Fingerprint(image) ==
    IF variant = "app" THEN image_hash(image) ELSE openai_image_hash(image)

Stored(image) == \E i \in 1..Len(images) : Fingerprint(images[i]) = Fingerprint(image)

\* C5: the Image Store never holds two images with equal fingerprints, and a
\* capture or upload whose images are all stored already does not make the
\* store longer.
C5_NoEqualFingerprints ==
    /\ [](\A i, j \in 1..Len(images) :
            i # j => Fingerprint(images[i]) # Fingerprint(images[j]))
    /\ [][ ( /\ event'.kind \in {"file_uploader", "camera_input"}
             /\ \A k \in 1..Len(uploaded_files') : Stored(uploaded_files'[k])
             /\ \A k \in 1..Len(camera_image') : Stored(camera_image'[k]) )
           => Len(images') = Len(images) ]_vars

C5_Witness ==
    /\ event.kind = "file_uploader"
    /\ Len(uploaded_files) = 2
    /\ Len(images) = 1
    /\ shown("duplicate image(s) were not added.")

Segments(r) ==
    {ij \in (1..(Len(r) + 1)) \X (0..Len(r)) :
        /\ ij[2] >= ij[1] - 1
        /\ (ij[1] = 1 \/ r[ij[1] - 1] = ",")
        /\ (ij[2] = Len(r) \/ r[ij[2] + 1] = ",")
        /\ \A k \in ij[1]..ij[2] : r[k] # ","}

\* x is what is left of t once the whitespace around it is removed
IsTrimOf(x, t) ==
    \E i \in 0..Len(t) : \E j \in i..Len(t) :
        /\ x = SubSeq(t, i + 1, j)
        /\ \A k \in 1..i : t[k] \in Whitespace
        /\ \A k \in (j + 1)..Len(t) : t[k] \in Whitespace
        /\ (x = <<>> \/ (x[1] \notin Whitespace /\ x[Len(x)] \notin Whitespace))

Failed == {i \in 1..Len(images) : event.responses[i] = APIError}
Succeeded == (1..Len(images)) \ Failed

C8_ItemsTrimmedNonEmpty ==
    event.kind = "return identify_items" =>
        \A x \in Range(ret) : x # <<>> /\ IsTrimOf(x, x)

\* C9: what identify_items returns holds no two equal strings: an item named
\* by several responses, or several times by one, appears exactly once.
C9_ItemsDistinct ==
    event.kind = "return identify_items" =>
        \A i, j \in 1..Len(ret) : i # j => ret[i] # ret[j]

C9_Witness ==
    /\ event.kind = "return identify_items"
    /\ event.responses = <<<<"a">>, <<" ", "a">>>>
    /\ ret = <<<<"a">>>>

\* C10: in every reachable state of a session the working ingredient list
\* holds no two equal strings and only trimmed, non-empty strings.
C10_IngredientsAreASet ==
    /\ \A i, j \in 1..Len(ingredients) : i # j => ingredients[i] # ingredients[j]
    /\ \A x \in Range(ingredients) : x # <<>> /\ IsTrimOf(x, x)

FailureMarker == "Unable to generate recipe. Please try again."

\* what the caller gets for a request whose call answered o
OutcomeOf(o) == IF o = "Exception" THEN FailureMarker ELSE o

\* C11: generate_multiple_recipes(items, diet, cuisine, n) returns at most n
\* entries; it issues its requests one per entry, all with the prompt of the
\* same items, diet and cuisine, and the i-th entry is the outcome of the
\* i-th request.
C11_RecipesInRequestOrder ==
    event.kind = "return generate_multiple_recipes" =>
        /\ Len(ret) <= Len(event.outcomes)
        /\ Len(calls) = Len(ret)
        /\ \A i \in 1..Len(ret) : ret[i] = OutcomeOf(event.outcomes[i])
        /\ \A i \in 1..Len(calls) :
              calls[i] = text_call(build_prompt(ingredients, event.diet_preference,
                                                event.cuisine_preference))

C11_Witness ==
    /\ event.kind = "return generate_multiple_recipes"
    /\ Len(event.outcomes) = 3
    /\ ret = <<"Salad: chop, toss.", FailureMarker, "Pasta: boil, mix, serve.">>
    /\ Len(calls) = 3

\* what a generate call returned, as a list with one entry per request
Returned == IF event.kind = "return generate_recipe" THEN <<ret>> ELSE ret

FailedRequests == {i \in 1..Len(event.outcomes) : event.outcomes[i] = "Exception"}

Contains(text, sub) ==
    \E i \in 0..(Len(text) - Len(sub)) : SubSeq(text, i + 1, i + Len(sub)) = sub

\* the diet names in lower case, in the order of diet_options
DietNamesLower ==
    << <<"n", "o", "n", "e">>,
       <<"v", "e", "g", "e", "t", "a", "r", "i", "a", "n">>,
       <<"v", "e", "g", "a", "n">>,
       <<"g", "l", "u", "t", "e", "n", "-", "f", "r", "e", "e">>,
       <<"k", "e", "t", "o">>,
       <<"l", "o", "w", "-", "c", "a", "r", "b">>,
       <<"p", "a", "l", "e", "o">> >>

DietClause(k) == <<"The recipe should be ">> \o DietNamesLower[k] \o <<".">>
CuisineClause(k) == <<"The recipe should be ">> \o cuisine_options[k] \o <<" cuisine.">>

\* the ingredients in list order with ", " between consecutive ones
RECURSIVE CommaJoined(_)
CommaJoined(items) ==
    IF Len(items) = 0 THEN <<>>
    ELSE IF Len(items) = 1 THEN items[1]
    ELSE CommaJoined(SubSeq(items, 1, Len(items) - 1)) \o <<", ">> \o items[Len(items)]

\* C13: every prompt of generate_recipe names the ingredients comma-joined in
\* input order; it has the diet clause, with the diet in lower case, exactly
\* when the diet preference is not "None", and the cuisine clause, with the
\* cuisine as selected, exactly when the cuisine preference is not "Any".
C13_PromptClauses ==
    event.kind \in {"return generate_recipe", "return generate_multiple_recipes"} =>
        \A c \in 1..Len(calls) :
            /\ Contains(calls[c].input,
                        <<"Create a recipe using these ingredients: ">>
                        \o CommaJoined(ingredients) \o <<". ">>)
            /\ \A k \in 1..Len(diet_options) :
                  Contains(calls[c].input, DietClause(k))
                  <=> (k # 1 /\ event.diet_preference = diet_options[k])
            /\ \A k \in 1..Len(cuisine_options) :
                  Contains(calls[c].input, CuisineClause(k))
                  <=> (k # 1 /\ event.cuisine_preference = cuisine_options[k])

C13_Witness ==
    /\ event.kind = "return generate_recipe"
    /\ event.diet_preference = diet_options[4]
    /\ event.cuisine_preference = cuisine_options[2]
    /\ ingredients = <<<<"b", " ", "c">>, <<"a">>>>
    /\ Len(calls) = 1
    /\ Contains(calls[1].input, <<"b", " ", "c", ", ", "a", ". ">>)
    /\ Contains(calls[1].input, <<"g", "l", "u", "t", "e", "n", "-", "f", "r", "e", "e">>)
    /\ Contains(calls[1].input, <<"I", "t", "a", "l", "i", "a", "n">>)

\* C14: no external call is retried.  An Identify step issues exactly one
\* vision call per stored image, in store order (none, with an empty result,
\* for no image); a Generate step with count n issues exactly n text calls;
\* this whether or not calls fail, and no other step issues a call.
C14_NoRetry ==
    /\ [](/\ identify_items(<<>>, <<>>).calls = <<>>
          /\ identify_items(<<>>, <<>>).returns = {<<>>})
    /\ [][ /\ event'.kind = "identify" =>
                calls' = [i \in 1..Len(images) |-> vision_call(images[i])]
           /\ event'.kind = "generate" =>
                /\ Len(calls') = event'.num_recipes
                /\ \A i \in 1..Len(calls') : calls'[i].api = "text"
           /\ event'.kind \notin {"identify", "generate"} => calls' = <<>> ]_vars

C14_Witness ==
    /\ event.kind = "identify"
    /\ Len(images) = 2
    /\ Len(calls) = 2
    /\ Len(msgs) = 1
    /\ msgs[1] = "An error occurred while identifying items"

\* C15: in every reachable state the sidebar menu is there, and selecting any
\* of the four stages in it makes that stage current whatever the Image
\* Store and the ingredient list hold, both left as they are; so Identify
\* Ingredients with no image and Generate Recipe with no ingredient are
\* reached.
C15_SidebarJumpUnchecked ==
    /\ "sidebar" \in rendered(state)
    /\ \A p \in PageSet :
          /\ script(state, [kind |-> "sidebar", page |-> p]).page = p
          /\ script(state, [kind |-> "sidebar", page |-> p]).images = images
          /\ script(state, [kind |-> "sidebar", page |-> p]).ingredients = ingredients

C15_Witness ==
    /\ event.kind = "sidebar"
    /\ page = "Generate Recipe"
    /\ ingredients = <<>>
    /\ images = <<>>

\* C16: the exported document for r1..rn has exactly n sections in list
\* order; section i is the label "Recipe i", numbered from 1, followed by
\* the text of ri, so each text stands after its own label and before the
\* next one.
C16_SectionsInOrder ==
    event.kind = "return get_pdf_download_link" =>
        /\ ret.href # "UnicodeEncodeError"
        /\ Len(ret.pdf) = 3 * Len(recipes)
        /\ \A i \in 1..Len(recipes) :
              /\ ret.pdf[3 * i - 2] = [op |-> "cell", txt |-> <<"Recipe ">> \o decimal(i)]
              /\ ret.pdf[3 * i - 1] = [op |-> "multi_cell", txt |-> recipes[i]]
              /\ ret.pdf[3 * i].op = "ln"

\* C17: with the Start, Next and Back buttons only (no sidebar jump), in
\* every reachable state the Image Store is non-empty on Identify
\* Ingredients and on Generate Recipe, and the ingredient list is non-empty
\* on Generate Recipe.
C17_StagesHaveTheirData ==
    /\ page \in {"Identify Ingredients", "Generate Recipe"} => images # <<>>
    /\ page = "Generate Recipe" => ingredients # <<>>

C17_Witness ==
    /\ event.kind = "to_generate"
    /\ event.edited
    /\ page = "Generate Recipe"
    /\ Len(images) = 1
    /\ Len(ingredients) = 2

\* C18: once a Clear All Images step (the run of the click and the rerun it
\* causes) is over, the Image Store is empty, also when the file uploader or
\* the camera input still holds what was submitted before.
C18_ClearAllEmptiesStore ==
    [][ event'.kind = "clear_all" => images' = <<>> ]_vars

IsPrefix(p, q) == Len(p) <= Len(q) /\ SubSeq(q, 1, Len(p)) = p

\* C19: running the script again on what the upload widgets hold leaves the
\* Image Store as it is, order included; and no step other than Clear All
\* Images removes or moves a stored image: the store before the step is a
\* prefix of the store after it.
C19_IngestionIdempotent ==
    /\ [](run(state, [kind |-> "rerun"]).images = images)
    /\ [][ event'.kind # "clear_all" => IsPrefix(images, images') ]_vars

C19_Witness ==
    /\ event.kind = "file_uploader"
    /\ Len(uploaded_files) = 2
    /\ images = uploaded_files
    /\ shown("new image(s) added successfully!")
    /\ shown("duplicate image(s) were not added.")

\* C20: whatever the user did before, a text-generation request is issued
\* only in a run that ends with a non-empty ingredient list (the list the
\* request is made for).
C20_GenerateNeedsIngredients ==
    \A c \in 1..Len(calls) : calls[c].api = "text" => ingredients # <<>>

\* the entries of the recipe list that are the failure marker
MarkedSlots(list) == {i \in 1..Len(list) : list[i] = FailureMarker}

\* C21: in the wizard only a Generate Recipes step changes the recipe list,
\* and it replaces the list by the new batch: one entry per requested recipe,
\* each a recipe text or the failure marker, as many markers as requests that
\* failed in this step.  Every other step (upload, capture, clear, identify,
\* edit, navigation, with the session-state initialisation of each run)
\* leaves the recipe list unchanged, and Clear All Images leaves the
\* ingredient list unchanged.
C21_RecipesChangedOnlyByGenerate ==
    [][ /\ event'.kind # "generate" => recipes' = recipes
        /\ event'.kind = "generate" =>
              /\ Len(recipes') = event'.num_recipes
              /\ \A i \in 1..Len(recipes') : recipes'[i] \in RecipeTexts \cup {FailureMarker}
              /\ Cardinality(MarkedSlots(recipes')) = Len(msgs')
        /\ event'.kind = "clear_all" => ingredients' = ingredients ]_vars

C21_Witness ==
    /\ event.kind = "clear_all"
    /\ page = "Upload Images"
    /\ ingredients # <<>>
    /\ recipes # <<>>

====
